---- MODULE Spec2Model ----
(***************************************************************************)
(* Conversation memory and structured context of the contact extractor     *)
(* (src/app/utils/contactExtractor.ts, the second, memory-based version    *)
(* that starts at line 385).                                               *)
(*                                                                         *)
(* JavaScript values are modelled as follows.  A string is a TLA+ string,  *)
(* an array a sequence, an object a record; a property that is undefined   *)
(* is a field the record does not have.  null is the value NULL.  The      *)
(* language model behind llm.invoke is a black box: each call either       *)
(* throws or returns one response drawn from a finite catalogue.  A        *)
(* response has the fields the code reads, ask_for_more_info included.     *)
(***************************************************************************)
EXTENDS Integers, Sequences, FiniteSets, TLC

VARIABLES
    conversationMemories,   \* sessionId -> ConversationMemory, or ABSENT
    tokenUsageStats,        \* sessionId -> TokenUsageStats, or ABSENT
    now,                    \* the value Date.now() returned last
    lastCall,               \* the last call made and what it returned
    turns                   \* the calls of extractContactsWithLLM that were
                            \* started step by step, in the order of their start

vars == <<conversationMemories, tokenUsageStats, now, lastCall, turns>>

-----------------------------------------------------------------------------
(* Bounds of the model *)

\* Date.now() never exceeds MaxClock; every turn takes at least one tick.
MaxClock == 4

-----------------------------------------------------------------------------
(* JavaScript strings *)

\* null, and the entry of a map (or the property of an object) that does not exist
NULL == "null"
ABSENT == [absent |-> TRUE]

Char(s, i) == SubSeq(s, i, i)

Truthy(s) == s # ""

RECURSIVE TrimStart(_)
TrimStart(s) ==
    IF Len(s) > 0 /\ Char(s, 1) = " " THEN TrimStart(SubSeq(s, 2, Len(s))) ELSE s

RECURSIVE TrimEnd(_)
TrimEnd(s) ==
    IF Len(s) > 0 /\ Char(s, Len(s)) = " "
    THEN TrimEnd(SubSeq(s, 1, Len(s) - 1))
    ELSE s

\* String.prototype.trim
Trim(s) == TrimEnd(TrimStart(s))

UpperLetters == "ABCDEFGHIJKLMNOPQRSTUVWXYZ"
LowerLetters == "abcdefghijklmnopqrstuvwxyz"

LowerChar(c) ==
    IF \E i \in 1..Len(UpperLetters) : Char(UpperLetters, i) = c
    THEN Char(LowerLetters, CHOOSE i \in 1..Len(UpperLetters) : Char(UpperLetters, i) = c)
    ELSE c

\* String.prototype.toLowerCase
RECURSIVE ToLowerCase(_)
ToLowerCase(s) ==
    IF Len(s) = 0 THEN ""
    ELSE LowerChar(Char(s, 1)) \o ToLowerCase(SubSeq(s, 2, Len(s)))

\* String.prototype.includes
Includes(s, sub) ==
    \E i \in 1..(Len(s) - Len(sub) + 1) : SubSeq(s, i, i + Len(sub) - 1) = sub

\* x || [] for an array property that may be undefined
FieldOrEmpty(r, f) == IF f \in DOMAIN r THEN r[f] ELSE <<>>

\* x || '' for a string property that may be undefined
FieldOrBlank(r, f) == IF f \in DOMAIN r THEN r[f] ELSE ""

-----------------------------------------------------------------------------
(* Conversation memory *)

EmptyStructuredContext ==
    [ pendingAppointments |-> <<>>,
      pendingTasks        |-> <<>>,
      pendingNotes        |-> <<>>,
      hasAskForMoreInfo   |-> FALSE,
      lastAsk             |-> "",
      disambiguationType  |-> NULL,
      disambiguationItems |-> <<>>,
      knownContacts       |-> <<>>,
      lastOperation       |-> NULL ]

maxMessages == 10

NewConversationMemory ==
    [ summary           |-> "",
      recentMessages    |-> <<>>,
      messageCount      |-> 0,
      maxMessages       |-> maxMessages,
      structuredContext |-> EmptyStructuredContext ]

\* GetConversationMemory giving a session that has no memory the memory of
\* another session, where there is one
GetConversationMemoryShared(memories, sessionId) ==
    IF memories[sessionId] # ABSENT THEN memories
    ELSE IF \E other \in DOMAIN memories : memories[other] # ABSENT
         THEN [memories EXCEPT ![sessionId] =
                    memories[CHOOSE other \in DOMAIN memories : memories[other] # ABSENT]]
         ELSE [memories EXCEPT ![sessionId] = NewConversationMemory]

\* getConversationMemory: the map after the call; the memory it returns is
\* the map's entry for sessionId.
GetConversationMemory(memories, sessionId) ==
    IF memories[sessionId] = ABSENT
    THEN [memories EXCEPT ![sessionId] = NewConversationMemory]
    ELSE memories

-----------------------------------------------------------------------------
(* Structured context *)

\* The questions the language model asks in this model
ContactDetailsQuestion ==
    "Please provide contact details (name, phone, or email) to link these activities."

WhoQuestion == "Who is this for?"
WhichAppointmentQuestion == "Which appointment do you want to cancel?"
WhichTaskQuestion == "Which task do you mean?"
ClarifyQuestion == "Could you clarify what you need?"

Questions ==
    { ContactDetailsQuestion, WhoQuestion, WhichAppointmentQuestion,
      WhichTaskQuestion, ClarifyQuestion }

\* The if-else chain over askLower.includes(...): the word found first in
\* the order appointment, task, contact; "pending" is its final else.
ClassifyAsk(ask) ==
    LET askLower == ToLowerCase(ask)
    IN IF Includes(askLower, "appointment") THEN "appointment"
       ELSE IF Includes(askLower, "task") THEN "task"
       ELSE IF Includes(askLower, "contact") THEN "contact"
       ELSE "pending"

\* ClassifyAsk, computed once for each question of the model
AskKinds == [q \in Questions |-> ClassifyAsk(q)]

AskKind(ask) == IF ask \in Questions THEN AskKinds[ask] ELSE ClassifyAsk(ask)

\* `${input.first_name} ${input.last_name}`.trim()
ContactName(input) == Trim(input.first_name \o " " \o input.last_name)

\* Array.prototype.findIndex on knownContacts by name; sequences are indexed
\* from 1, so 0 stands for the -1 of "not found".
FindIndexByName(knownContacts, name) ==
    IF \E i \in 1..Len(knownContacts) : knownContacts[i].name = name
    THEN CHOOSE i \in 1..Len(knownContacts) :
            /\ knownContacts[i].name = name
            /\ \A j \in 1..(i - 1) : knownContacts[j].name # name
    ELSE 0

\* input.tasks?.map(t => t.input) || []
TaskInputs(input) ==
    LET tasks == FieldOrEmpty(input, "tasks")
    IN [i \in 1..Len(tasks) |-> tasks[i].input]

\* The body of the forEach over aiResponse.contacts; t is what Date.now()
\* returns in this iteration.
ExtractContact(context, input, ask, t) ==
    LET contactName == ContactName(input)
        contactInfo == [ name      |-> contactName,
                         firstName |-> input.first_name,
                         lastName  |-> input.last_name,
                         phone     |-> input.phone,
                         email     |-> input.email,
                         lastSeen  |-> t ]
        known == context.knownContacts
        existingIndex == FindIndexByName(known, contactName)
        known1 ==
            IF (Truthy(input.first_name) \/ Truthy(input.last_name)) /\ Truthy(contactName)
            THEN IF existingIndex >= 1
                 THEN [known EXCEPT ![existingIndex] = contactInfo]
                 ELSE Append(known, contactInfo)
            ELSE known
        c1 == [context EXCEPT !.knownContacts = known1]
        kind == AskKind(ask)
    IN  IF ~Truthy(ask) THEN c1
        ELSE IF kind = "appointment"
        THEN [c1 EXCEPT !.disambiguationType = "appointment",
                        !.disambiguationItems = FieldOrEmpty(input, "appointments")]
        ELSE IF kind = "task"
        THEN [c1 EXCEPT !.disambiguationType = "task",
                        !.disambiguationItems = FieldOrEmpty(input, "tasks")]
        ELSE IF kind = "contact"
        THEN [c1 EXCEPT !.disambiguationType = "contact"]
        ELSE [c1 EXCEPT !.pendingAppointments = FieldOrEmpty(input, "appointments"),
                        !.pendingTasks = TaskInputs(input),
                        !.pendingNotes = FieldOrEmpty(input, "notes")]

RECURSIVE ExtractContacts(_, _, _, _, _)
ExtractContacts(context, contacts, ask, times, i) ==
    IF i > Len(contacts) THEN context
    ELSE ExtractContacts(
            ExtractContact(context, contacts[i].input_contact, ask, times[i]),
            contacts, ask, times, i + 1)

\* extractStructuredContext; times[i] is what Date.now() returns while the
\* i-th contact is handled.
ExtractStructuredContext(aiResponse, times) ==
    LET ask == FieldOrBlank(aiResponse, "ask_for_more_info")
        context == [ pendingAppointments |-> <<>>,
                     pendingTasks        |-> <<>>,
                     pendingNotes        |-> <<>>,
                     hasAskForMoreInfo   |-> Truthy(ask),
                     lastAsk             |-> ask,
                     disambiguationType  |-> NULL,
                     disambiguationItems |-> <<>>,
                     knownContacts       |-> <<>> ]
    IN ExtractContacts(context, FieldOrEmpty(aiResponse, "contacts"), ask, times, 1)

\* a.lastSeen || 0
LastSeenOrZero(c) == IF "lastSeen" \in DOMAIN c THEN c.lastSeen ELSE 0

\* The comparators of the two sorts by lastSeen: newestFirst is
\* (a, b) => (b.lastSeen || 0) - (a.lastSeen || 0), the other one is
\* (a, b) => (a.lastSeen || 0) - (b.lastSeen || 0).
CompareLastSeen(a, b, newestFirst) ==
    IF newestFirst
    THEN LastSeenOrZero(b) - LastSeenOrZero(a)
    ELSE LastSeenOrZero(a) - LastSeenOrZero(b)

\* Array.prototype.sort is stable: an element is placed behind every element
\* that the comparator does not put after it.
RECURSIVE InsertSorted(_, _, _)
InsertSorted(sorted, x, newestFirst) ==
    IF sorted = <<>> THEN <<x>>
    ELSE IF CompareLastSeen(Head(sorted), x, newestFirst) <= 0
         THEN <<Head(sorted)>> \o InsertSorted(Tail(sorted), x, newestFirst)
         ELSE <<x>> \o sorted

RECURSIVE SortByLastSeen(_, _)
SortByLastSeen(seq, newestFirst) ==
    IF seq = <<>> THEN <<>>
    ELSE InsertSorted(SortByLastSeen(SubSeq(seq, 1, Len(seq) - 1), newestFirst),
                      seq[Len(seq)], newestFirst)

\* getMostRecentContact: sort by lastSeen, most recent first, take the head
GetMostRecentContact(knownContacts) ==
    IF Len(knownContacts) = 0 THEN NULL
    ELSE SortByLastSeen(knownContacts, TRUE)[1].name

\* GetFirstContact taking, of the entries the comparator holds equal, the one
\* that stands last in the list
GetFirstContactLastOfEqual(knownContacts) ==
    IF Len(knownContacts) = 0 THEN NULL
    ELSE LET n == Len(knownContacts)
             reversed == [i \in 1..n |-> knownContacts[n + 1 - i]]
         IN SortByLastSeen(reversed, FALSE)[1].name

\* getFirstContact: sort by lastSeen, oldest first, take the head
GetFirstContact(knownContacts) ==
    IF Len(knownContacts) = 0 THEN NULL
    ELSE SortByLastSeen(knownContacts, FALSE)[1].name

\* MergeKnownContacts without the test for an entry of the same name
RECURSIVE MergeKnownContactsUnchecked(_, _)
MergeKnownContactsUnchecked(known, newContacts) ==
    IF newContacts = <<>> THEN known
    ELSE MergeKnownContactsUnchecked(
            IF Truthy(Head(newContacts).name) THEN Append(known, Head(newContacts)) ELSE known,
            Tail(newContacts))

\* MergeKnownContacts putting the new entry in the place of the one of the
\* same name
RECURSIVE MergeKnownContactsOverwriting(_, _)
MergeKnownContactsOverwriting(known, newContacts) ==
    IF newContacts = <<>> THEN known
    ELSE LET newContact == Head(newContacts)
             index == FindIndexByName(known, newContact.name)
         IN MergeKnownContactsOverwriting(
                IF ~Truthy(newContact.name) THEN known
                ELSE IF index >= 1 THEN [known EXCEPT ![index] = newContact]
                ELSE Append(known, newContact),
                Tail(newContacts))

\* MergeKnownContacts putting the new entry, stripped of its time, in the
\* place of the one of the same name
RECURSIVE MergeKnownContactsUnstamped(_, _)
MergeKnownContactsUnstamped(known, newContacts) ==
    IF newContacts = <<>> THEN known
    ELSE LET newContact == Head(newContacts)
             index == FindIndexByName(known, newContact.name)
         IN MergeKnownContactsUnstamped(
                IF ~Truthy(newContact.name) THEN known
                ELSE IF index >= 1
                     THEN [known EXCEPT ![index] = [newContact EXCEPT !.lastSeen = 0]]
                     ELSE Append(known, newContact),
                Tail(newContacts))

\* The forEach that merges newContext.knownContacts into the memory's list
RECURSIVE MergeKnownContacts(_, _)
MergeKnownContacts(known, newContacts) ==
    IF newContacts = <<>> THEN known
    ELSE LET newContact == Head(newContacts)
             exists == \E i \in 1..Len(known) : known[i].name = newContact.name
         IN MergeKnownContacts(
                IF ~exists /\ Truthy(newContact.name)
                THEN Append(known, newContact)
                ELSE known,
                Tail(newContacts))

\* MergePending whose else branch resets the question and leaves the lists
MergePendingKeepingLists(structuredContext, newContext) ==
    IF newContext.hasAskForMoreInfo
    THEN [structuredContext EXCEPT
            !.pendingAppointments = newContext.pendingAppointments,
            !.pendingTasks = newContext.pendingTasks,
            !.pendingNotes = newContext.pendingNotes,
            !.disambiguationType = newContext.disambiguationType,
            !.disambiguationItems = newContext.disambiguationItems,
            !.hasAskForMoreInfo = TRUE,
            !.lastAsk = newContext.lastAsk]
    ELSE [structuredContext EXCEPT !.hasAskForMoreInfo = FALSE, !.lastAsk = ""]

\* MergePending leaving the disambiguation of the question before in place
\* when the new question has none
MergePendingKeepingDisambiguation(structuredContext, newContext) ==
    IF newContext.hasAskForMoreInfo
    THEN [structuredContext EXCEPT
            !.pendingAppointments = newContext.pendingAppointments,
            !.pendingTasks = newContext.pendingTasks,
            !.pendingNotes = newContext.pendingNotes,
            !.disambiguationType =
                IF newContext.disambiguationType # NULL
                THEN newContext.disambiguationType ELSE @,
            !.disambiguationItems =
                IF newContext.disambiguationType # NULL
                THEN newContext.disambiguationItems ELSE @,
            !.hasAskForMoreInfo = TRUE,
            !.lastAsk = newContext.lastAsk]
    ELSE [structuredContext EXCEPT
            !.pendingAppointments = <<>>,
            !.pendingTasks = <<>>,
            !.pendingNotes = <<>>,
            !.disambiguationType = NULL,
            !.disambiguationItems = <<>>,
            !.hasAskForMoreInfo = FALSE,
            !.lastAsk = ""]

\* The pending part of mergeStructuredContext: a new question stages the new
\* items, no question clears everything staged.
MergePending(structuredContext, newContext) ==
    IF newContext.hasAskForMoreInfo
    THEN [structuredContext EXCEPT
            !.pendingAppointments = newContext.pendingAppointments,
            !.pendingTasks = newContext.pendingTasks,
            !.pendingNotes = newContext.pendingNotes,
            !.disambiguationType = newContext.disambiguationType,
            !.disambiguationItems = newContext.disambiguationItems,
            !.hasAskForMoreInfo = TRUE,
            !.lastAsk = newContext.lastAsk]
    ELSE [structuredContext EXCEPT
            !.pendingAppointments = <<>>,
            !.pendingTasks = <<>>,
            !.pendingNotes = <<>>,
            !.disambiguationType = NULL,
            !.disambiguationItems = <<>>,
            !.hasAskForMoreInfo = FALSE,
            !.lastAsk = ""]

\* mergeStructuredContext: the memory after the call
MergeStructuredContext(memory, newContext) ==
    LET pending == MergePending(memory.structuredContext, newContext)
    IN [memory EXCEPT !.structuredContext =
            [pending EXCEPT !.knownContacts =
                MergeKnownContacts(pending.knownContacts, newContext.knownContacts)]]

-----------------------------------------------------------------------------
(* The structured context as text for the prompt *)

\* Array.prototype.join
RECURSIVE Join(_, _)
Join(parts, separator) ==
    IF parts = <<>> THEN ""
    ELSE IF Len(parts) = 1 THEN parts[1]
    ELSE parts[1] \o separator \o Join(Tail(parts), separator)

\* `${x}` for a string property that may be undefined
Interpolated(r, f) == IF f \in DOMAIN r THEN r[f] ELSE "undefined"

\* The line of one known contact
KnownContactLine(contact, idx, mostRecentContact, firstContact) ==
    LET details ==
            (IF Truthy(contact.phone) THEN <<"phone: " \o contact.phone>> ELSE <<>>)
            \o (IF Truthy(contact.email) THEN <<"email: " \o contact.email>> ELSE <<>>)
        detailsStr == IF Len(details) > 0 THEN " (" \o Join(details, ", ") \o ")" ELSE ""
        indicators ==
            (IF contact.name = mostRecentContact THEN " (MOST RECENT)" ELSE "")
            \o (IF contact.name = firstContact THEN " (FIRST)" ELSE "")
    IN ToString(idx) \o ". " \o contact.name \o detailsStr \o indicators

\* The lines of the known contacts
KnownContactsPart(context) ==
    LET known == context.knownContacts
        mostRecentContact == GetMostRecentContact(known)
        firstContact == GetFirstContact(known)
    IN IF Len(known) > 0
       THEN <<"KNOWN CONTACTS:">>
            \o [idx \in 1..Len(known) |->
                    KnownContactLine(known[idx], idx, mostRecentContact, firstContact)]
            \o <<"MOST RECENT CONTACT: " \o mostRecentContact>>
            \o (IF firstContact # mostRecentContact
                THEN <<"FIRST CONTACT: " \o firstContact>> ELSE <<>>)
            \o <<"">>
       ELSE <<>>

\* `  ${idx + 1}. ${appt.title}${loc} - ${appt.start}`
AppointmentLine(appt, idx) ==
    LET loc == IF "location" \in DOMAIN appt /\ Truthy(appt.location)
               THEN " at " \o appt.location ELSE ""
    IN "  " \o ToString(idx) \o ". " \o Interpolated(appt, "title") \o loc
            \o " - " \o Interpolated(appt, "start")

\* `  ${idx + 1}. ${item.name} - due ${item.dueDate}`
TaskLine(item, idx) ==
    "  " \o ToString(idx) \o ". " \o Interpolated(item, "name")
        \o " - due " \o Interpolated(item, "dueDate")

\* The lines of the disambiguation items
DisambiguationPart(context) ==
    LET items == context.disambiguationItems
    IN IF context.disambiguationType # NULL /\ Len(items) > 0
       THEN <<"Choosing " \o context.disambiguationType
                \o " (" \o ToString(Len(items)) \o " options):">>
            \o [idx \in 1..Len(items) |->
                    IF context.disambiguationType = "appointment"
                    THEN AppointmentLine(items[idx], idx)
                    ELSE TaskLine(items[idx], idx)]
            \o <<"">>
       ELSE <<>>

\* The lines of the pending activities
PendingPart(context) ==
    (IF Len(context.pendingAppointments) > 0
     THEN <<"Pending appointments (" \o ToString(Len(context.pendingAppointments)) \o "):">>
          \o [idx \in 1..Len(context.pendingAppointments) |->
                  AppointmentLine(context.pendingAppointments[idx], idx)]
          \o <<"">>
     ELSE <<>>)
    \o (IF Len(context.pendingTasks) > 0
        THEN <<"Pending tasks: " \o ToString(Len(context.pendingTasks)), "">>
        ELSE <<>>)

\* buildStructuredContextPrompt
BuildStructuredContextPrompt(context) ==
    LET parts ==
            KnownContactsPart(context)
            \o (IF context.hasAskForMoreInfo
                THEN <<"PENDING OPERATION:", "Question: \"" \o context.lastAsk \o "\"", "">>
                     \o DisambiguationPart(context)
                     \o PendingPart(context)
                ELSE <<>>)
    IN IF Len(parts) > 0 THEN Join(parts, "\n") ELSE "No previous context"

-----------------------------------------------------------------------------
(* Saving a turn *)

HumanMessage(content) == [type |-> "human", content |-> content]
AIMessage(content) == [type |-> "ai", content |-> content]

\* JSON text is kept apart from the value it encodes.  The values of the model
\* hold strings, numbers, booleans, arrays and objects only, and an undefined
\* property is a missing field, so parsing what stringify wrote gives the
\* value back; any other text makes JSON.parse throw.
JSONStringify(value) == [json |-> value]
IsJSON(text) == DOMAIN text = {"json"}
JSONParse(text) == text.json

\* saveConversationToMemory up to its overflow test: the context is merged
\* unless the response does not parse, the two messages are pushed.
SaveMessages(memory, userMessage, aiResponse, times) ==
    LET merged ==
            IF IsJSON(aiResponse)
            THEN MergeStructuredContext(memory,
                    ExtractStructuredContext(JSONParse(aiResponse), times))
            ELSE memory
    IN [merged EXCEPT
            !.recentMessages = @ \o <<HumanMessage(userMessage), AIMessage(aiResponse)>>,
            !.messageCount = @ + 2]

NeedsSummary(memory) == Len(memory.recentMessages) > memory.maxMessages

\* memory.recentMessages.slice(0, -4)
MessagesToSummarize(memory) ==
    SubSeq(memory.recentMessages, 1, Len(memory.recentMessages) - 4)

\* RecentToKeep keeping the last six messages
RecentToKeepSix(memory) ==
    LET len == Len(memory.recentMessages)
    IN SubSeq(memory.recentMessages, IF len > 6 THEN len - 5 ELSE 1, len)

\* memory.recentMessages.slice(-4)
RecentToKeep(memory) ==
    LET len == Len(memory.recentMessages)
    IN SubSeq(memory.recentMessages, IF len > 4 THEN len - 3 ELSE 1, len)

OldSummary(memory) ==
    IF Truthy(memory.summary)
    THEN "Previous summary: " \o memory.summary \o "\n\n"
    ELSE ""

SummarizationFailedText == "Previous conversation history (summarization failed)"

\* SummarizeConversation whose catch block returns the empty string
SummarizeConversationEmptyOnError(summarizer) ==
    IF summarizer.failed THEN "" ELSE summarizer.text

\* summarizeConversation: the text of the model, or the fixed text of its
\* catch block
SummarizeConversation(summarizer) ==
    IF summarizer.failed THEN SummarizationFailedText ELSE summarizer.text

\* The two assignments behind the await of summarizeConversation; oldSummary
\* and recentMessages were taken before it.
ApplySummary(memory, oldSummary, recentMessages, newSummary) ==
    [memory EXCEPT !.summary = oldSummary \o newSummary,
                   !.recentMessages = recentMessages]

\* saveConversationToMemory as one step: the map of memories after it
SaveConversationToMemory(memories, sessionId, userMessage, aiResponse, times, summarizer) ==
    LET created == GetConversationMemory(memories, sessionId)
        saved == SaveMessages(created[sessionId], userMessage, aiResponse, times)
    IN [created EXCEPT ![sessionId] =
            IF NeedsSummary(saved)
            THEN ApplySummary(saved, OldSummary(saved), RecentToKeep(saved),
                              SummarizeConversation(summarizer))
            ELSE saved]

-----------------------------------------------------------------------------
(* Token usage *)

NewTokenUsageStats(t) ==
    [ totalTokens |-> 0, promptTokens |-> 0, completionTokens |-> 0,
      messagesCount |-> 0, lastUpdated |-> t ]

\* handleLLMEnd: updateTokenUsage when the output carries a token usage
UpdateTokenUsage(stats, sessionId, usage, t) ==
    IF usage = ABSENT THEN stats
    ELSE LET old == IF stats[sessionId] = ABSENT
                    THEN NewTokenUsageStats(t)
                    ELSE stats[sessionId]
         IN [stats EXCEPT ![sessionId] =
                [ totalTokens      |-> old.totalTokens + usage.totalTokens,
                  promptTokens     |-> old.promptTokens + usage.promptTokens,
                  completionTokens |-> old.completionTokens + usage.completionTokens,
                  messagesCount    |-> old.messagesCount + 1,
                  lastUpdated      |-> t ]]

-----------------------------------------------------------------------------
(* The turn *)

DefaultValidations == [missing_fields |-> <<>>, invalid_fields |-> <<>>]

\* PostProcessContact without the test of the intent
PostProcessContactKeepingIntent(contact) ==
    LET input == contact.input_contact
        intent == IF "intent" \in DOMAIN input THEN input.intent ELSE "list"
        operation == IF intent = "add" THEN "add"
                     ELSE IF intent = "update" THEN "update"
                     ELSE "list"
        validations == IF "validations" \in DOMAIN input
                       THEN input.validations
                       ELSE DefaultValidations
        approved == IF "approved" \in DOMAIN contact THEN contact.approved ELSE FALSE
    IN ("input_contact" :> (("intent" :> intent) @@ ("operation" :> operation)
                            @@ ("validations" :> validations) @@ input))
       @@ ("approved" :> approved) @@ contact

\* PostProcessContact setting the operation only where the response has none
PostProcessContactKeepingOperation(contact) ==
    LET input == contact.input_contact
        intent == IF "intent" \in DOMAIN input /\ input.intent \in {"add", "update", "list"}
                  THEN input.intent
                  ELSE "list"
        operation == IF "operation" \in DOMAIN input THEN input.operation
                     ELSE IF intent = "add" THEN "add"
                     ELSE IF intent = "update" THEN "update"
                     ELSE "list"
        validations == IF "validations" \in DOMAIN input
                       THEN input.validations
                       ELSE DefaultValidations
        approved == IF "approved" \in DOMAIN contact THEN contact.approved ELSE FALSE
    IN ("input_contact" :> (("intent" :> intent) @@ ("operation" :> operation)
                            @@ ("validations" :> validations) @@ input))
       @@ ("approved" :> approved) @@ contact

\* The post-processing of one contact of the response
PostProcessContact(contact) ==
    LET input == contact.input_contact
        intent == IF "intent" \in DOMAIN input /\ input.intent \in {"add", "update", "list"}
                  THEN input.intent
                  ELSE "list"
        operation == IF intent = "add" THEN "add"
                     ELSE IF intent = "update" THEN "update"
                     ELSE "list"
        validations == IF "validations" \in DOMAIN input
                       THEN input.validations
                       ELSE DefaultValidations
        approved == IF "approved" \in DOMAIN contact THEN contact.approved ELSE FALSE
    IN ("input_contact" :> (("intent" :> intent) @@ ("operation" :> operation)
                            @@ ("validations" :> validations) @@ input))
       @@ ("approved" :> approved) @@ contact

PostProcess(parsedData) ==
    [parsedData EXCEPT !.contacts = [i \in 1..Len(@) |-> PostProcessContact(@[i])]]

\* What the catch block returns
FallbackResponse ==
    [ contacts |-> <<
        [ input_contact |->
            [ id |-> "temp_1", first_name |-> "", last_name |-> "", phone |-> "",
              email |-> "", stage |-> "Lead", source |-> "sumiAgent",
              intent |-> "list", operation |-> "list",
              notes |-> <<>>, tasks |-> <<>>, appointments |-> <<>>,
              validations |-> DefaultValidations ],
          update_contact |-> <<>>,
          approved |-> FALSE ] >>,
      language |-> "english",
      skip_to |-> "" ]

\* ProcessTurn recording the user's message before the language model is
\* called, so that it stays recorded when the call throws
ProcessTurnRecordingQueryFirst(memories, sessionId, query, outcome, times, summarizer) ==
    LET created == GetConversationMemory(memories, sessionId)
    IN IF outcome.failed
       THEN [created EXCEPT ![sessionId].recentMessages = Append(@, HumanMessage(query)),
                            ![sessionId].messageCount = @ + 1]
       ELSE SaveConversationToMemory(created, sessionId, query,
                                     JSONStringify(outcome.data), times, summarizer)

\* What extractContactsWithLLM does to the memories: the memory is created on
\* entry; a response is saved before it is post-processed; the catch block
\* touches nothing.
ProcessTurn(memories, sessionId, query, outcome, times, summarizer) ==
    LET created == GetConversationMemory(memories, sessionId)
    IN IF outcome.failed
       THEN created
       ELSE SaveConversationToMemory(created, sessionId, query,
                                     JSONStringify(outcome.data), times, summarizer)

\* TurnResult whose catch block returns no contact at all
TurnResultEmptyOnError(outcome) ==
    IF outcome.failed
    THEN [contacts |-> <<>>, language |-> "english", skip_to |-> ""]
    ELSE PostProcess(outcome.data)

\* What extractContactsWithLLM returns
TurnResult(outcome) ==
    IF outcome.failed THEN FallbackResponse ELSE PostProcess(outcome.data)

-----------------------------------------------------------------------------
(* The catalogue: what the user sends and what the language model answers *)

SessionIds == {"s1", "s2"}

ApptA ==
    [ title |-> "Showing at 789 Pine Ave", intent |-> "add", id |-> "temp_appointment_1",
      start |-> "2023-10-07T10:00:00Z", end |-> "2023-10-07T11:00:00Z",
      location |-> "789 Pine Ave", type |-> "Showing" ]

ApptB ==
    [ title |-> "Showing at 321 Elm St", intent |-> "add", id |-> "temp_appointment_2",
      start |-> "2023-10-08T14:00:00Z", end |-> "2023-10-08T15:00:00Z",
      location |-> "321 Elm St", type |-> "Showing" ]

TaskT ==
    [ input |->
        [ name |-> "Send listing", intent |-> "add", id |-> "temp_task_1",
          type |-> "Follow Up", is_completed |-> 0,
          dueDate |-> "2023-10-09", dueDateTime |-> "2023-10-09T09:00:00Z" ] ]

NoteN == [note |-> "Prefers downtown", intent |-> "add"]

InputContact(firstName, lastName, phone, email, intent, notes, tasks, appointments) ==
    [ id |-> "temp_contact_1", first_name |-> firstName, last_name |-> lastName,
      phone |-> phone, email |-> email, stage |-> "Lead", source |-> "sumiAgent",
      intent |-> intent, operation |-> intent,
      notes |-> notes, tasks |-> tasks, appointments |-> appointments,
      validations |-> DefaultValidations ]

Contact(input) == [input_contact |-> input, update_contact |-> <<>>, approved |-> FALSE]

Response(contacts, ask) ==
    [contacts |-> contacts, language |-> "english", skip_to |-> "", ask_for_more_info |-> ask]

ScheduleQuery ==
    "Schedule showing at 789 Pine Ave Saturday 10am and another at 321 Elm St Sunday 2pm"

\* What handleLLMEnd is given when the output carries a token usage
TokenUsage == [promptTokens |-> 2, completionTokens |-> 1, totalTokens |-> 3]

\* llm.invoke returns the response, or throws; usage is the token usage its
\* output carried, ABSENT for none.
Returned(response, usage) == [failed |-> FALSE, data |-> response, usage |-> usage]
Thrown(usage) == [failed |-> TRUE, usage |-> usage]

Exchange(query, response) == [query |-> query, outcome |-> Returned(response, TokenUsage)]

\* Activities without a contact, answered with the question of the prompt
XScheduleAsk ==
    Exchange(ScheduleQuery,
        Response(<<Contact(InputContact("", "", "", "", "add", <<>>, <<>>, <<ApptA, ApptB>>))>>,
                 ContactDetailsQuestion))

\* Activities without a contact, answered with a question in other words
XScheduleWho ==
    Exchange(ScheduleQuery,
        Response(<<Contact(InputContact("", "", "", "", "add",
                                        <<NoteN>>, <<TaskT>>, <<ApptA, ApptB>>))>>,
                 WhoQuestion))

\* Activities for two contacts that are not named, one appointment each
XTwoShowings ==
    Exchange("Schedule a showing at 789 Pine Ave for one buyer and at 321 Elm St for another",
        Response(<<Contact(InputContact("", "", "", "", "add", <<NoteN>>, <<>>, <<ApptA>>)),
                   Contact(InputContact("", "", "", "", "add", <<>>, <<>>, <<ApptB>>))>>,
                 WhoQuestion))

\* A bare name, answered with the contact alone
XSarah ==
    Exchange("Sarah Williams",
        Response(<<Contact(InputContact("Sarah", "Williams", "5551234", "", "add",
                                        <<>>, <<>>, <<>>))>>, ""))

\* A bare name, answered with the contact and the activities of the context
XSarahAttached ==
    Exchange("Sarah Williams",
        Response(<<Contact(InputContact("Sarah", "Williams", "", "", "add",
                                        <<>>, <<>>, <<ApptA, ApptB>>))>>, ""))

\* The known name again, without phone or email
XSarahBlank ==
    Exchange("Show Sarah Williams",
        Response(<<Contact(InputContact("Sarah", "Williams", "", "", "list",
                                        <<>>, <<>>, <<>>))>>, ""))

\* The known name with a new phone and an email
XSarahUpdate ==
    Exchange("Update Sarah Williams phone to 555-9999, email sarah@example.com",
        Response(<<Contact(InputContact("Sarah", "Williams", "5559999", "sarah@example.com",
                                        "update", <<>>, <<>>, <<>>))>>, ""))

\* Two contacts in one response
XJohnAndSarah ==
    Exchange("Add John Smith and Sarah Williams",
        Response(<<Contact(InputContact("John", "Smith", "", "john@example.com", "add",
                                        <<>>, <<>>, <<>>)),
                   Contact(InputContact("Sarah", "Williams", "", "", "add",
                                        <<>>, <<>>, <<>>))>>, ""))

\* One name twice in one response, the second time as a full name in
\* first_name and without the phone
XSarahTwice ==
    Exchange("Add Sarah Williams, phone 555-1234",
        Response(<<Contact(InputContact("Sarah", "Williams", "5551234", "", "add",
                                        <<>>, <<>>, <<>>)),
                   Contact(InputContact("Sarah Williams", "", "", "", "add",
                                        <<>>, <<>>, <<>>))>>, ""))

\* No contact and no question; the output carries no token usage
XNothing ==
    [ query |-> "yes",
      outcome |-> Returned(
        Response(<<Contact(InputContact("", "", "", "", "list", <<>>, <<>>, <<>>))>>, ""),
        ABSENT) ]

\* A choice among appointments; the intent is outside add/update/list and
\* approved and validations are left out
XCancelWhich ==
    Exchange("Cancel the appointment",
        Response(<<[ input_contact |->
                        [ id |-> "temp_contact_1", first_name |-> "Sarah",
                          last_name |-> "Williams", phone |-> "", email |-> "",
                          stage |-> "Lead", source |-> "sumiAgent",
                          intent |-> "delete", operation |-> "delete",
                          notes |-> <<>>, tasks |-> <<>>,
                          appointments |-> <<ApptA, ApptB>> ],
                     update_contact |-> <<>> ]>>,
                 WhichAppointmentQuestion))

\* A choice among tasks
XTaskWhich ==
    Exchange("Complete the task",
        Response(<<Contact(InputContact("John", "Smith", "", "", "update",
                                        <<>>, <<TaskT>>, <<>>))>>,
                 WhichTaskQuestion))

\* A question with nothing to stage
XUnclear ==
    Exchange("Do it", Response(<<>>, ClarifyQuestion))

\* The call times out: nothing came back
XTimeout == [query |-> "Sarah Williams", outcome |-> Thrown(ABSENT)]

\* The model answered, and its output could not be decoded
XUndecodable == [query |-> ScheduleQuery, outcome |-> Thrown(TokenUsage)]

Exchanges ==
    { XScheduleAsk, XScheduleWho, XSarah, XSarahAttached, XSarahBlank, XSarahUpdate,
      XJohnAndSarah, XSarahTwice, XNothing, XCancelWhich, XTaskWhich, XUnclear,
      XTwoShowings,
      XTimeout, XUndecodable }

\* The summarizing model throws, or returns a text
SummarizerOutcomes ==
    { [failed |-> f, text |-> "Summary of the conversation so far.", usage |-> u] :
        f \in BOOLEAN, u \in {ABSENT, TokenUsage} }

NotSummarized == [failed |-> FALSE, text |-> "", usage |-> ABSENT]

-----------------------------------------------------------------------------
(* Actions *)

\* What a get of the session returns: its memory, the empty one if none is stored
StateOf(memories, sessionId) == GetConversationMemory(memories, sessionId)[sessionId]

ContextOf(memories, sessionId) == StateOf(memories, sessionId).structuredContext

ContactCount(outcome) == IF outcome.failed THEN 0 ELSE Len(outcome.data.contacts)

RECURSIVE SumTicks(_, _)
SumTicks(ticks, i) == IF i < 2 THEN 0 ELSE ticks[i] + SumTicks(ticks, i - 1)

\* Date.now() while the i-th contact is handled: start for the first one, and
\* ticks[i] more than for the one before
TimesOf(start, ticks, n) == [i \in 1..n |-> start + SumTicks(ticks, i)]

TypeOK ==
    /\ \A i \in 1..Len(turns) : turns[i].pc \in {"invoke", "summarize", "done"}
    /\ DOMAIN conversationMemories = SessionIds
    /\ DOMAIN tokenUsageStats = SessionIds
    /\ now \in Nat

Init ==
    /\ conversationMemories = [s \in SessionIds |-> ABSENT]
    /\ tokenUsageStats = [s \in SessionIds |-> ABSENT]
    /\ now = 0
    /\ lastCall = [op |-> "none"]
    /\ turns = <<>>

\* One call of extractContactsWithLLM, from entry to return.  The call of the
\* language model takes one tick of the clock at least.
ExtractContactsWithLLM(sessionId, query, outcome, ticks) ==
    LET n == ContactCount(outcome)
        start == now + 1
        times == TimesOf(start, ticks, n)
        end == IF n = 0 THEN start ELSE times[n]
        created == GetConversationMemory(conversationMemories, sessionId)
        overflow ==
            /\ ~outcome.failed
            /\ NeedsSummary(SaveMessages(created[sessionId], query,
                                         JSONStringify(outcome.data), times))
    IN /\ end <= MaxClock
       /\ \E summarizer \in (IF overflow THEN SummarizerOutcomes ELSE {NotSummarized}) :
            /\ conversationMemories' =
                    ProcessTurn(conversationMemories, sessionId, query, outcome,
                                times, summarizer)
            /\ tokenUsageStats' =
                    UpdateTokenUsage(
                        UpdateTokenUsage(tokenUsageStats, sessionId, outcome.usage, start),
                        sessionId, summarizer.usage, end)
            /\ lastCall' = [ op |-> "extractContactsWithLLM", sessionId |-> sessionId,
                         newSession |-> conversationMemories[sessionId] = ABSENT,
                         query |-> query, outcome |-> outcome,
                         result |-> TurnResult(outcome),
                         summarized |-> IF overflow
                                        THEN MessagesToSummarize(
                                                SaveMessages(created[sessionId], query,
                                                    JSONStringify(outcome.data), times))
                                        ELSE <<>> ]
       /\ now' = end
       /\ UNCHANGED turns

\* ClearMemories emptying the messages, the count and the summary of the
\* memory and leaving its structured context
ClearMemoriesMessagesOnly(memories, sessionId) ==
    IF memories[sessionId] = ABSENT THEN memories
    ELSE [memories EXCEPT ![sessionId].recentMessages = <<>>,
                          ![sessionId].messageCount = 0,
                          ![sessionId].summary = ""]

\* ClearMemories deleting the entry of every session
ClearMemoriesOfAll(memories, sessionId) == [s \in DOMAIN memories |-> ABSENT]

\* delete conversationMemories[sessionId]
ClearMemories(memories, sessionId) == [memories EXCEPT ![sessionId] = ABSENT]

\* delete tokenUsageStats[sessionId]
ClearStats(stats, sessionId) == [stats EXCEPT ![sessionId] = ABSENT]

\* A save that is suspended in summarizeConversation holds the memory object
\* it took from the map before.  Once the entry is deleted that object is no
\* longer the one of the map, whatever is stored for the session later.
Detached(started, sessionId) ==
    [i \in 1..Len(started) |->
        IF started[i].sessionId = sessionId /\ started[i].pc = "summarize"
        THEN [started[i] EXCEPT !.detached = TRUE]
        ELSE started[i]]

\* clearChatHistory
ClearChatHistory(sessionId) ==
    /\ conversationMemories' = ClearMemories(conversationMemories, sessionId)
    /\ tokenUsageStats' = ClearStats(tokenUsageStats, sessionId)
    /\ lastCall' = [ op |-> "clearChatHistory", sessionId |-> sessionId,
                     messageCount |-> StateOf(conversationMemories, sessionId).messageCount,
                     hadStats |-> tokenUsageStats[sessionId] # ABSENT ]
    /\ turns' = Detached(turns, sessionId)
    /\ UNCHANGED now

\* The sessions that take turns under Spec
Sessions == {"s1"}

Turn ==
    \E sessionId \in Sessions, x \in Exchanges :
        \E ticks \in [2..ContactCount(x.outcome) -> 0..1] :
            ExtractContactsWithLLM(sessionId, x.query, x.outcome, ticks)

Clear == \E sessionId \in Sessions : ClearChatHistory(sessionId)

Next == Turn \/ Clear

Spec == Init /\ [][Next]_vars

-----------------------------------------------------------------------------
(* The turn in its steps: extractContactsWithLLM is suspended at the await of
   llm.invoke and, when the window overflows, at the await of
   summarizeConversation; other calls run in between *)

\* The turns that were started and have not returned
InFlight(started) == {i \in 1..Len(started) : started[i].pc # "done"}

\* Date.now() is called by updateTokenUsage and once for every contact of the
\* response
ReadsClock(outcome) == ContactCount(outcome) > 0 \/ outcome.usage # ABSENT

\* A turn that has returned
Finished(turn, outcome, toSummarize, summarizer) ==
    [ sessionId |-> turn.sessionId, query |-> turn.query, pc |-> "done",
      outcome |-> outcome, result |-> TurnResult(outcome),
      toSummarize |-> toSummarize, summarizer |-> summarizer ]

\* A turn at the await of summarizeConversation, with the locals of
\* saveConversationToMemory that were computed before it
Suspended(turn, outcome, saved) ==
    [ sessionId |-> turn.sessionId, query |-> turn.query, pc |-> "summarize",
      outcome |-> outcome,
      toSummarize |-> MessagesToSummarize(saved),
      recentMessages |-> RecentToKeep(saved),
      oldSummary |-> OldSummary(saved),
      detached |-> FALSE ]

\* extractContactsWithLLM from its entry to the await of llm.invoke
StartTurn(sessionId, query) ==
    /\ conversationMemories' = GetConversationMemory(conversationMemories, sessionId)
    /\ turns' = Append(turns, [sessionId |-> sessionId, query |-> query, pc |-> "invoke"])
    /\ lastCall' = [op |-> "startTurn", sessionId |-> sessionId, turn |-> Len(turns) + 1]
    /\ UNCHANGED <<tokenUsageStats, now>>

\* llm.invoke settles.  When it throws the catch block returns; otherwise
\* saveConversationToMemory looks the memory up again, merges and pushes, and
\* either returns or stops at the await of summarizeConversation.
InvokeReturns(i, outcome, start, ticks) ==
    LET turn == turns[i]
        sessionId == turn.sessionId
        n == ContactCount(outcome)
        times == TimesOf(start, ticks, n)
        end == IF n = 0 THEN start ELSE times[n]
        created == GetConversationMemory(conversationMemories, sessionId)
        saved == SaveMessages(created[sessionId], turn.query,
                              JSONStringify(outcome.data), times)
        after == IF outcome.failed \/ ~NeedsSummary(saved)
                 THEN Finished(turn, outcome, <<>>, NotSummarized)
                 ELSE Suspended(turn, outcome, saved)
    IN /\ turn.pc = "invoke"
       /\ tokenUsageStats' = UpdateTokenUsage(tokenUsageStats, sessionId, outcome.usage, start)
       /\ conversationMemories' =
            IF outcome.failed THEN conversationMemories
            ELSE [created EXCEPT ![sessionId] = saved]
       /\ turns' = [turns EXCEPT ![i] = after]
       /\ now' = end
       /\ lastCall' = [ op |-> "invokeReturns", sessionId |-> sessionId, turn |-> i,
                        returned |-> after.pc = "done" ]

\* summarizeConversation settles: the two assignments go to the memory object
\* the save holds, the rest of extractContactsWithLLM looks the memory up once
\* more and returns the post-processed response.
SummarizeReturns(i, summarizer, t) ==
    LET turn == turns[i]
        sessionId == turn.sessionId
        assigned ==
            IF turn.detached THEN conversationMemories
            ELSE [conversationMemories EXCEPT ![sessionId] =
                    ApplySummary(@, turn.oldSummary, turn.recentMessages,
                                 SummarizeConversation(summarizer))]
    IN /\ turn.pc = "summarize"
       /\ tokenUsageStats' = UpdateTokenUsage(tokenUsageStats, sessionId, summarizer.usage, t)
       /\ conversationMemories' = GetConversationMemory(assigned, sessionId)
       /\ turns' = [turns EXCEPT ![i] =
                        Finished(turn, turn.outcome, turn.toSummarize, summarizer)]
       /\ now' = t
       /\ lastCall' = [ op |-> "summarizeReturns", sessionId |-> sessionId, turn |-> i,
                        returned |-> TRUE ]

\* The n-th message a user sends
ScriptedQuery(n) == "message " \o ToString(n)

\* A response without contacts or a timeout, and no token usage in the output
QuietOutcomes == {Returned(Response(<<>>, ""), ABSENT), Thrown(ABSENT)}

QuietSummarizers == {summarizer \in SummarizerOutcomes : summarizer.usage = ABSENT}

(* One session whose turns are processed one after the other *)

MaxTurns == 10

WindowStart ==
    /\ Len(turns) < MaxTurns
    /\ InFlight(turns) = {}
    /\ StartTurn("s1", ScriptedQuery(Len(turns) + 1))

WindowInvoke ==
    \E i \in InFlight(turns), outcome \in QuietOutcomes :
        InvokeReturns(i, outcome, now, <<>>)

WindowSummarize ==
    \E i \in InFlight(turns), summarizer \in QuietSummarizers :
        SummarizeReturns(i, summarizer, now)

WindowNext == WindowStart \/ WindowInvoke \/ WindowSummarize

WindowSpec == Init /\ [][WindowNext]_vars

(* One session with up to two turns in flight, and resets in between *)

MaxOverlapTurns == 7

OverlapStart ==
    /\ Len(turns) < MaxOverlapTurns
    /\ Cardinality(InFlight(turns)) < 2
    /\ StartTurn("s1", ScriptedQuery(Len(turns) + 1))

OverlapInvoke ==
    \E i \in InFlight(turns), outcome \in QuietOutcomes :
        InvokeReturns(i, outcome, now, <<>>)

OverlapSummarize ==
    \E i \in InFlight(turns), summarizer \in QuietSummarizers :
        SummarizeReturns(i, summarizer, now)

OverlapClear == ClearChatHistory("s1")

OverlapNext == OverlapStart \/ OverlapInvoke \/ OverlapSummarize \/ OverlapClear

OverlapSpec == Init /\ [][OverlapNext]_vars

(* Two sessions whose turns and resets interleave.  Every call of a language
   model takes one tick of the clock; the number of turns bounds the clock. *)

MaxPairTurns == 6

\* A response with one contact
PairOutcomes == {XSarah.outcome}

PairSummarizers == {summarizer \in SummarizerOutcomes : summarizer.usage # ABSENT}

PairStart ==
    /\ Len(turns) < MaxPairTurns
    /\ Cardinality(InFlight(turns)) < 2
    /\ \E sessionId \in SessionIds : StartTurn(sessionId, ScriptedQuery(Len(turns) + 1))

PairInvoke ==
    \E i \in InFlight(turns), outcome \in PairOutcomes :
        InvokeReturns(i, outcome, IF ReadsClock(outcome) THEN now + 1 ELSE now, <<>>)

PairSummarize ==
    \E i \in InFlight(turns), summarizer \in PairSummarizers :
        SummarizeReturns(i, summarizer, now + 1)

PairClear ==
    \E sessionId \in SessionIds :
        /\ conversationMemories[sessionId] # ABSENT
        /\ ClearChatHistory(sessionId)

PairNext == PairStart \/ PairInvoke \/ PairSummarize \/ PairClear

PairSpec == Init /\ [][PairNext]_vars

-----------------------------------------------------------------------------
(* The two lookups by lastSeen, called on a list of known contacts *)

\* The lastSeen of an entry of these lists never exceeds MaxLastSeen.
MaxLastSeen == 2

RegistryNames == {"John Smith", "Sarah Williams", "Mike Johnson"}

KnownContactEntries == [name : RegistryNames, lastSeen : 0..MaxLastSeen]

\* The lists of known contacts without a name twice, in any order of lastSeen
Registries ==
    UNION { { r \in [1..n -> KnownContactEntries] :
                \A i, j \in 1..n : r[i].name = r[j].name => i = j } :
            n \in 0..Cardinality(RegistryNames) }

\* const firstContact = getFirstContact(context.knownContacts)
CallGetFirstContact(knownContacts) ==
    /\ lastCall' = [ op |-> "getFirstContact", knownContacts |-> knownContacts,
                     result |-> GetFirstContact(knownContacts) ]
    /\ UNCHANGED <<conversationMemories, tokenUsageStats, now, turns>>

\* const mostRecentContact = getMostRecentContact(context.knownContacts)
CallGetMostRecentContact(knownContacts) ==
    /\ lastCall' = [ op |-> "getMostRecentContact", knownContacts |-> knownContacts,
                     result |-> GetMostRecentContact(knownContacts) ]
    /\ UNCHANGED <<conversationMemories, tokenUsageStats, now, turns>>

LookupFirst == \E knownContacts \in Registries : CallGetFirstContact(knownContacts)

LookupMostRecent == \E knownContacts \in Registries : CallGetMostRecentContact(knownContacts)

LookupNext == LookupFirst \/ LookupMostRecent

LookupSpec == Init /\ [][LookupNext]_vars

-----------------------------------------------------------------------------
(* The contact name looked for in the query itself (the extractor that keeps
   its history in InMemoryChatMessageHistory, lines 63-383) *)

CharAt(s, i) == IF i >= 1 /\ i <= Len(s) THEN SubSeq(s, i, i) ELSE ""

IsUpper(c) == c # "" /\ Includes(UpperLetters, c)
IsLower(c) == c # "" /\ Includes(LowerLetters, c)

\* The index of the last character of the longest run of [a-z] that starts at
\* index i; i - 1 when there is none
RECURSIVE LowerRunEnd(_, _)
LowerRunEnd(s, i) ==
    IF IsLower(CharAt(s, i)) THEN LowerRunEnd(s, i + 1) ELSE i - 1

\* Where a match of [A-Z][a-z]+(?:\.)? [A-Z][a-z]+ that starts at index i
\* ends; 0 when there is none
MatchEnd(s, i) ==
    IF ~IsUpper(CharAt(s, i)) THEN 0
    ELSE LET firstEnd == LowerRunEnd(s, i + 1)
             space == IF CharAt(s, firstEnd + 1) = "." THEN firstEnd + 2 ELSE firstEnd + 1
             secondEnd == LowerRunEnd(s, space + 2)
         IN IF /\ firstEnd >= i + 1
               /\ CharAt(s, space) = " "
               /\ IsUpper(CharAt(s, space + 1))
               /\ secondEnd >= space + 2
            THEN secondEnd
            ELSE 0

\* query.match(/([A-Z][a-z]+(?:\.)? [A-Z][a-z]+)/): the leftmost match, null
\* for none
MatchNameCandidate(query) ==
    IF \E i \in 1..Len(query) : MatchEnd(query, i) > 0
    THEN LET i == CHOOSE i \in 1..Len(query) :
                    /\ MatchEnd(query, i) > 0
                    /\ \A j \in 1..(i - 1) : MatchEnd(query, j) = 0
         IN SubSeq(query, i, MatchEnd(query, i))
    ELSE NULL

StreetSuffixes == {"Ave", "St", "Rd", "Blvd", "Dr", "Way", "Ln"}

\* The test that filters out addresses: includes() on the whole candidate
LooksLikeAddress(candidate) == \E suffix \in StreetSuffixes : Includes(candidate, suffix)

\* currentQueryContact after the filter
CurrentQueryContact(query) ==
    LET candidate == MatchNameCandidate(query)
    IN IF candidate # NULL /\ LooksLikeAddress(candidate) THEN NULL ELSE candidate

\* mostRecentActiveContact: the last contact of the history, unless the query
\* names one
MostRecentActiveContact(lastContactOfHistory, currentQueryContact) ==
    IF currentQueryContact # NULL THEN currentQueryContact ELSE lastContactOfHistory

\* The queries of this part of the model: a lead-in, two capitalized or
\* other words, and a tail
QueryLeadIns == {"", "call ", "schedule showing at 789 "}
QueryFirstWords == {"Sarah", "Steve", "Drew", "Mrs.", "Pine", "john"}
QuerySecondWords == {"Williams", "Drake", "Ave", "St", "Lane", "today"}
QueryTails == {"", " for Sarah Williams"}

Queries ==
    { leadIn \o firstWord \o " " \o secondWord \o tail :
        leadIn \in QueryLeadIns, firstWord \in QueryFirstWords,
        secondWord \in QuerySecondWords, tail \in QueryTails }

\* The match and the contact of every query of the model, computed once
QueryContacts ==
    [ query \in Queries |->
        [ candidate |-> MatchNameCandidate(query),
          currentQueryContact |-> CurrentQueryContact(query) ] ]

\* The part of extractContactsWithLLM that settles mostRecentActiveContact
\* before the prompt is built
DetectQueryContact(query, lastContactOfHistory) ==
    /\ lastCall' = [ op |-> "currentQueryContact", query |-> query,
                     candidate |-> QueryContacts[query].candidate,
                     currentQueryContact |-> QueryContacts[query].currentQueryContact,
                     lastContactOfHistory |-> lastContactOfHistory,
                     mostRecentActiveContact |->
                        MostRecentActiveContact(lastContactOfHistory,
                            QueryContacts[query].currentQueryContact) ]
    /\ UNCHANGED <<conversationMemories, tokenUsageStats, now, turns>>

DetectNext ==
    \E query \in Queries, lastContactOfHistory \in {NULL, "John Smith"} :
        DetectQueryContact(query, lastContactOfHistory)

DetectSpec == Init /\ [][DetectNext]_vars

-----------------------------------------------------------------------------
(* Properties *)

IsTurn(call) == call.op = "extractContactsWithLLM"
Succeeded(call) == IsTurn(call) /\ ~call.outcome.failed
Failed(call) == IsTurn(call) /\ call.outcome.failed

\* The response of a successful turn, as the language model returned it
RawOf(call) == call.outcome.data

Named(input) == Truthy(ContactName(input))

Resolvable(input) ==
    Truthy(input.first_name) \/ Truthy(input.last_name)
        \/ Truthy(input.phone) \/ Truthy(input.email)

AnyPending(context) ==
    \/ context.pendingAppointments # <<>>
    \/ context.pendingTasks # <<>>
    \/ context.pendingNotes # <<>>

Staged(context) == context.hasAskForMoreInfo /\ AnyPending(context)

Idle(context) == ~AnyPending(context) /\ ~Truthy(context.lastAsk)

\* C1: a turn whose extraction call throws leaves the state of its session
\* (known contacts, pending lists, question, disambiguation, recentMessages,
\* messageCount, summary) as it was before the turn.
C1_FailureLeavesState ==
    [][Failed(lastCall') =>
        StateOf(conversationMemories', lastCall'.sessionId)
            = StateOf(conversationMemories, lastCall'.sessionId)]_vars

\* A turn has failed on a session that has a known contact, staged items and
\* recorded messages.
C1_Witness ==
    /\ Failed(lastCall)
    /\ conversationMemories[lastCall.sessionId] # ABSENT
    /\ LET memory == conversationMemories[lastCall.sessionId]
       IN /\ memory.structuredContext.knownContacts # <<>>
          /\ Staged(memory.structuredContext)
          /\ memory.recentMessages # <<>>

\* C2: on a session without known contacts, the response with two
\* appointments on a nameless contact and the contact-details question leaves
\* that question outstanding and exactly the two appointments pending.
C2_ContactDetailsQuestionStages ==
    [][(/\ ContextOf(conversationMemories, "s1").knownContacts = <<>>
        /\ Succeeded(lastCall')
        /\ lastCall'.sessionId = "s1"
        /\ RawOf(lastCall') = XScheduleAsk.outcome.data)
       => (/\ ContextOf(conversationMemories', "s1").lastAsk = ContactDetailsQuestion
           /\ ContextOf(conversationMemories', "s1").pendingAppointments = <<ApptA, ApptB>>)]_vars

\* C3: with appointments staged and a question outstanding, a turn whose
\* response is one named contact without appointments and without a question
\* returns that contact with exactly the staged appointments, in order, and
\* leaves none pending.
C3_StagedAppointmentsAttached ==
    [][\A s \in SessionIds :
        (/\ Staged(ContextOf(conversationMemories, s))
         /\ ContextOf(conversationMemories, s).pendingAppointments # <<>>
         /\ Succeeded(lastCall')
         /\ lastCall'.sessionId = s
         /\ Len(RawOf(lastCall').contacts) = 1
         /\ Named(RawOf(lastCall').contacts[1].input_contact)
         /\ RawOf(lastCall').contacts[1].input_contact.appointments = <<>>
         /\ ~Truthy(RawOf(lastCall').ask_for_more_info))
        => (/\ lastCall'.result.contacts[1].input_contact.appointments
                    = ContextOf(conversationMemories, s).pendingAppointments
            /\ ContextOf(conversationMemories', s).pendingAppointments = <<>>)]_vars

\* C4, as claimed: the question is non-empty exactly when a disambiguation is
\* set or a pending list is non-empty.
C4_QuestionIffStaged ==
    \A s \in SessionIds :
        LET context == ContextOf(conversationMemories, s)
        IN Truthy(context.lastAsk)
            <=> (context.disambiguationType # NULL \/ AnyPending(context))

\* C4, amended: when a disambiguation is set or a pending list is non-empty,
\* the question is non-empty.
C4_StagedImpliesQuestion ==
    \A s \in SessionIds :
        LET context == ContextOf(conversationMemories, s)
        IN (context.disambiguationType # NULL \/ AnyPending(context))
            => Truthy(context.lastAsk)

\* Appointments, a task and a note are pending on a session.
C4_Witness ==
    \E s \in SessionIds :
        LET context == ContextOf(conversationMemories, s)
        IN /\ context.pendingAppointments = <<ApptA, ApptB>>
           /\ context.pendingTasks # <<>>
           /\ context.pendingNotes # <<>>
           /\ context.lastAsk = WhoQuestion

\* C5: a session with staged items and a question becomes idle (nothing
\* pending, no question) by a turn only if the response of that turn holds a
\* contact with a name, a phone or an email.
C5_IdleOnlyByResolvableContact ==
    [][\A s \in SessionIds :
        (/\ Staged(ContextOf(conversationMemories, s))
         /\ IsTurn(lastCall')
         /\ lastCall'.sessionId = s
         /\ Idle(ContextOf(conversationMemories', s)))
        => (/\ Succeeded(lastCall')
            /\ \E i \in 1..Len(RawOf(lastCall').contacts) :
                    Resolvable(RawOf(lastCall').contacts[i].input_contact))]_vars

\* C6: the known contacts of a session never hold one name twice.
C6_UniqueNames ==
    \A s \in SessionIds :
        LET known == ContextOf(conversationMemories, s).knownContacts
        IN \A i, j \in 1..Len(known) : known[i].name = known[j].name => i = j

\* A response that names one contact twice has been merged into a session
\* that knew this contact and another one already.
C6_Witness ==
    /\ Succeeded(lastCall)
    /\ RawOf(lastCall) = XSarahTwice.outcome.data
    /\ Len(ContextOf(conversationMemories, lastCall.sessionId).knownContacts) = 2
    /\ Len(StateOf(conversationMemories, lastCall.sessionId).recentMessages) >= 4

\* C7: a turn whose response is one contact that is known already, with the
\* same fields, leaves the number of known contacts unchanged and sets the
\* lastSeen of that entry to the time of this turn.
C7_SameContactBumpsLastSeen ==
    [][\A s \in SessionIds :
        LET known == ContextOf(conversationMemories, s).knownContacts
            after == ContextOf(conversationMemories', s).knownContacts
        IN \A i \in 1..Len(known) :
            (/\ Succeeded(lastCall')
             /\ lastCall'.sessionId = s
             /\ Len(RawOf(lastCall').contacts) = 1
             /\ LET input == RawOf(lastCall').contacts[1].input_contact
                IN /\ ContactName(input) = known[i].name
                   /\ input.first_name = known[i].firstName
                   /\ input.last_name = known[i].lastName
                   /\ input.phone = known[i].phone
                   /\ input.email = known[i].email)
            => (/\ Len(after) = Len(known)
                /\ after[i].name = known[i].name
                /\ after[i].lastSeen > now
                /\ after[i].lastSeen <= now')]_vars

\* C8: a turn whose response is one contact of a known name with a non-empty
\* phone (email) makes that phone (email) the stored one.
C8_NonEmptyFieldsStored ==
    [][\A s \in SessionIds :
        LET known == ContextOf(conversationMemories, s).knownContacts
            after == ContextOf(conversationMemories', s).knownContacts
        IN \A i \in 1..Len(known) :
            (/\ Succeeded(lastCall')
             /\ lastCall'.sessionId = s
             /\ Len(RawOf(lastCall').contacts) = 1
             /\ ContactName(RawOf(lastCall').contacts[1].input_contact) = known[i].name)
            => LET input == RawOf(lastCall').contacts[1].input_contact
               IN /\ Len(after) >= i
                  /\ after[i].name = known[i].name
                  /\ Truthy(input.phone) => after[i].phone = input.phone
                  /\ Truthy(input.email) => after[i].email = input.email]_vars

LatestOfMostRecent(knownContacts) ==
    CHOOSE i \in 1..Len(knownContacts) :
        \A j \in 1..Len(knownContacts) :
            \/ knownContacts[j].lastSeen < knownContacts[i].lastSeen
            \/ (knownContacts[j].lastSeen = knownContacts[i].lastSeen /\ j <= i)

\* C10: getMostRecentContact returns none for no contacts, otherwise the
\* entry with the greatest lastSeen, of several such the one inserted last;
\* for [John(1), Sarah(5)] it returns Sarah.
C10_MostRecentTieBreaksLatest ==
    /\ GetMostRecentContact(<<>>) = NULL
    /\ GetMostRecentContact(<<[name |-> "John Smith", lastSeen |-> 1],
                              [name |-> "Sarah Williams", lastSeen |-> 5]>>)
            = "Sarah Williams"
    /\ \A s \in SessionIds :
        LET known == ContextOf(conversationMemories, s).knownContacts
        IN known # <<>> =>
            GetMostRecentContact(known) = known[LatestOfMostRecent(known)].name

\* The entry first names by the claim: of the entries with the least lastSeen
\* the one inserted first.
EarliestOfOldest(knownContacts) ==
    CHOOSE i \in 1..Len(knownContacts) :
        \A j \in 1..Len(knownContacts) :
            \/ knownContacts[j].lastSeen > knownContacts[i].lastSeen
            \/ (knownContacts[j].lastSeen = knownContacts[i].lastSeen /\ j >= i)

\* C11: getFirstContact returns none for no contacts, otherwise the entry
\* with the least lastSeen, of several such the one inserted first; for
\* [John(1), Sarah(5)] it returns John.
C11_FirstIsEarliestOfOldest ==
    /\ GetFirstContact(<<>>) = NULL
    /\ GetFirstContact(<<[name |-> "John Smith", lastSeen |-> 1],
                         [name |-> "Sarah Williams", lastSeen |-> 5]>>)
            = "John Smith"
    /\ lastCall.op = "getFirstContact" =>
            LET known == lastCall.knownContacts
            IN IF known = <<>>
               THEN lastCall.result = NULL
               ELSE lastCall.result = known[EarliestOfOldest(known)].name

\* getFirstContact has been called on three contacts of which the first one
\* is the newest and the other two are equally old, and has returned the
\* second.
C11_Witness ==
    /\ lastCall.op = "getFirstContact"
    /\ Len(lastCall.knownContacts) = 3
    /\ lastCall.knownContacts[1].lastSeen > lastCall.knownContacts[2].lastSeen
    /\ lastCall.knownContacts[2].lastSeen = lastCall.knownContacts[3].lastSeen
    /\ lastCall.result = lastCall.knownContacts[2].name

\* C12: from one turn to the next, every known contact of a session stays
\* known and its lastSeen does not decrease; only clearChatHistory ends this.
C12_LastSeenNeverDecreases ==
    [][lastCall'.op # "clearChatHistory" =>
        \A s \in SessionIds :
            LET known == ContextOf(conversationMemories, s).knownContacts
                after == ContextOf(conversationMemories', s).knownContacts
            IN \A i \in 1..Len(known) :
                \E j \in 1..Len(after) :
                    /\ after[j].name = known[i].name
                    /\ after[j].lastSeen >= known[i].lastSeen]_vars

\* A turn after the first one has named, alone, a contact that was stored at
\* an earlier time.
C12_Witness ==
    /\ Succeeded(lastCall)
    /\ Len(RawOf(lastCall).contacts) = 1
    /\ Len(StateOf(conversationMemories, lastCall.sessionId).recentMessages) >= 4
    /\ LET known == ContextOf(conversationMemories, lastCall.sessionId).knownContacts
       IN \E i \in 1..Len(known) :
            /\ known[i].name = ContactName(RawOf(lastCall).contacts[1].input_contact)
            /\ known[i].lastSeen >= 1
            /\ known[i].lastSeen < now

\* C13: a turn whose extraction call throws returns (it does not throw in
\* turn) a result of exactly one contact with empty first_name, last_name,
\* phone and email, intent and operation "list", no notes, tasks or
\* appointments, and approved false.
C13_FailureReturnsFallback ==
    Failed(lastCall) =>
        /\ DOMAIN lastCall.result = {"contacts", "language", "skip_to"}
        /\ Len(lastCall.result.contacts) = 1
        /\ LET contact == lastCall.result.contacts[1]
               input == contact.input_contact
           IN /\ input.first_name = ""
              /\ input.last_name = ""
              /\ input.phone = ""
              /\ input.email = ""
              /\ input.intent = "list"
              /\ input.operation = "list"
              /\ input.notes = <<>>
              /\ input.tasks = <<>>
              /\ input.appointments = <<>>
              /\ contact.approved = FALSE

\* The call of the language model has thrown on a session that has known
\* contacts and staged items, after its output was counted.
C13_Witness ==
    /\ Failed(lastCall)
    /\ lastCall.outcome.usage # ABSENT
    /\ ContextOf(conversationMemories, lastCall.sessionId).knownContacts # <<>>
    /\ AnyPending(ContextOf(conversationMemories, lastCall.sessionId))

\* C14: with items staged, a turn whose response is one contact without
\* name, phone or email and a question leaves pending exactly the
\* appointments, tasks and notes of that response, and that question
\* outstanding.
C14_NewQuestionReplacesStaged ==
    [][\A s \in SessionIds :
        (/\ Staged(ContextOf(conversationMemories, s))
         /\ Succeeded(lastCall')
         /\ lastCall'.sessionId = s
         /\ Truthy(RawOf(lastCall').ask_for_more_info)
         /\ Len(RawOf(lastCall').contacts) = 1
         /\ ~Resolvable(RawOf(lastCall').contacts[1].input_contact))
        => LET input == RawOf(lastCall').contacts[1].input_contact
               after == ContextOf(conversationMemories', s)
           IN /\ after.pendingAppointments = input.appointments
              /\ after.pendingTasks = TaskInputs(input)
              /\ after.pendingNotes = input.notes
              /\ after.lastAsk = RawOf(lastCall').ask_for_more_info]_vars

\* C15: after a successful turn, the assistant message the session has
\* recorded for it holds the contacts as they were returned to the caller:
\* each recorded intent is one of add, update, list and equals the intent
\* returned.
C15_RecordedIsNormalized ==
    Succeeded(lastCall) =>
        LET messages == StateOf(conversationMemories, lastCall.sessionId).recentMessages
            recorded == JSONParse(messages[Len(messages)].content)
        IN /\ Len(recorded.contacts) = Len(lastCall.result.contacts)
           /\ \A i \in 1..Len(recorded.contacts) :
                /\ recorded.contacts[i].input_contact.intent \in {"add", "update", "list"}
                /\ recorded.contacts[i].input_contact.intent
                        = lastCall.result.contacts[i].input_contact.intent

\* The intent the post-processing gives for the intent of the response
NormalIntent(input) ==
    IF "intent" \in DOMAIN input /\ input.intent \in {"add", "update", "list"}
    THEN input.intent
    ELSE "list"

\* C16: in the result of every successful turn each contact's intent is one
\* of add, update, list: the intent of the response if it is one of these,
\* "list" otherwise.
C16_IntentNormalized ==
    Succeeded(lastCall) =>
        /\ Len(lastCall.result.contacts) = Len(RawOf(lastCall).contacts)
        /\ \A i \in 1..Len(lastCall.result.contacts) :
            LET intent == lastCall.result.contacts[i].input_contact.intent
            IN /\ intent \in {"add", "update", "list"}
               /\ intent = NormalIntent(RawOf(lastCall).contacts[i].input_contact)

\* A response with the intent "delete" has been returned with the intent
\* "list".
C16_Witness ==
    /\ Succeeded(lastCall)
    /\ Len(RawOf(lastCall).contacts) = 1
    /\ RawOf(lastCall).contacts[1].input_contact.intent = "delete"
    /\ lastCall.result.contacts[1].input_contact.intent = "list"

\* C17: in the result of every successful turn each contact's operation is
\* "add" for the intent add, "update" for the intent update, and "list" for
\* any other intent, whatever operation the response held.
C17_OperationFromIntent ==
    Succeeded(lastCall) =>
        \A i \in 1..Len(lastCall.result.contacts) :
            LET raw == RawOf(lastCall).contacts[i].input_contact
                input == lastCall.result.contacts[i].input_contact
                expected(intent) == IF intent = "add" THEN "add"
                                    ELSE IF intent = "update" THEN "update"
                                    ELSE "list"
            IN /\ input.operation = expected(input.intent)
               /\ "intent" \in DOMAIN raw => input.operation = expected(raw.intent)

\* A response with the intent and the operation "delete" has been returned
\* with the operation "list".
C17_Witness ==
    /\ Succeeded(lastCall)
    /\ Len(lastCall.result.contacts) = 1
    /\ RawOf(lastCall).contacts[1].input_contact.operation = "delete"
    /\ lastCall.result.contacts[1].input_contact.operation = "list"

\* C18: on a session with known contacts, a successful turn whose message
\* holds activities and no name returns no contact without name, phone and
\* email.
C18_NoEmptyContactWhenKnown ==
    [][\A s \in SessionIds :
        (/\ ContextOf(conversationMemories, s).knownContacts # <<>>
         /\ Succeeded(lastCall')
         /\ lastCall'.sessionId = s
         /\ lastCall'.query = ScheduleQuery)
        => \A i \in 1..Len(lastCall'.result.contacts) :
                Resolvable(lastCall'.result.contacts[i].input_contact)]_vars

\* C19: once clearChatHistory has been called for a session, a get of that
\* session returns the empty default (no known contacts, nothing pending,
\* no question, no disambiguation, no messages, messageCount 0, empty
\* summary) and the session has no token usage statistics.
C19_ClearResets ==
    lastCall.op = "clearChatHistory" =>
        LET state == StateOf(conversationMemories, lastCall.sessionId)
            context == state.structuredContext
        IN /\ context.knownContacts = <<>>
           /\ ~AnyPending(context)
           /\ ~context.hasAskForMoreInfo
           /\ context.lastAsk = ""
           /\ context.disambiguationType = NULL
           /\ context.disambiguationItems = <<>>
           /\ state.recentMessages = <<>>
           /\ state.messageCount = 0
           /\ state.summary = ""
           /\ tokenUsageStats[lastCall.sessionId] = ABSENT

\* clearChatHistory has been called for a session that had recorded two
\* turns or more and had token usage statistics.
C19_Witness ==
    /\ lastCall.op = "clearChatHistory"
    /\ lastCall.messageCount >= 4
    /\ lastCall.hadStats

\* C20: for a session that has no memory, a get stores and returns the empty
\* state (nothing pending, no question, no disambiguation, no known
\* contacts, no messages) and touches no other session; a turn of such a
\* session goes as on the empty state: a response is recorded as the first
\* two messages, a failure returns the fallback.
C20_UnknownKeyGetsEmptyState ==
    [][\A s \in SessionIds :
        conversationMemories[s] = ABSENT =>
            LET created == GetConversationMemory(conversationMemories, s)
                state == created[s]
                context == state.structuredContext
            IN /\ state # ABSENT
               /\ \A other \in SessionIds \ {s} : created[other] = conversationMemories[other]
               /\ Idle(context)
               /\ ~context.hasAskForMoreInfo
               /\ context.disambiguationType = NULL
               /\ context.disambiguationItems = <<>>
               /\ context.knownContacts = <<>>
               /\ state.recentMessages = <<>>
               /\ state.messageCount = 0
               /\ state.summary = ""
               /\ (IsTurn(lastCall') /\ lastCall'.sessionId = s) =>
                    /\ conversationMemories'[s] # ABSENT
                    /\ Succeeded(lastCall') =>
                        /\ conversationMemories'[s].messageCount = 2
                        /\ conversationMemories'[s].recentMessages =
                                <<HumanMessage(lastCall'.query),
                                  AIMessage(JSONStringify(RawOf(lastCall')))>>
                    /\ Failed(lastCall') =>
                        /\ conversationMemories'[s] = state
                        /\ lastCall'.result = FallbackResponse]_vars

\* A session whose memory had been deleted after earlier turns has taken a
\* turn that stored a contact.
C20_Witness ==
    /\ Succeeded(lastCall)
    /\ lastCall.newSession
    /\ now >= 2
    /\ StateOf(conversationMemories, lastCall.sessionId).messageCount = 2
    /\ ContextOf(conversationMemories, lastCall.sessionId).knownContacts # <<>>

\* C25: when the response to a cancel request holds the contact intent
\* "delete", the result returned to the caller holds "delete" for that
\* contact.
C25_DeleteIntentReturned ==
    Succeeded(lastCall) =>
        \A i \in 1..Len(RawOf(lastCall).contacts) :
            RawOf(lastCall).contacts[i].input_contact.intent = "delete"
                => lastCall.result.contacts[i].input_contact.intent = "delete"

\* The elements of a sequence
Range(seq) == {seq[i] : i \in 1..Len(seq)}

\* C24: after a turn whose response holds a question and two contacts or
\* more, none of them with a name, a phone or an email, the pending lists
\* hold the appointments, tasks and notes of every one of these contacts.
C24_AllContactsStaged ==
    [][\A s \in SessionIds :
        (/\ Succeeded(lastCall')
         /\ lastCall'.sessionId = s
         /\ Truthy(RawOf(lastCall').ask_for_more_info)
         /\ Len(RawOf(lastCall').contacts) >= 2
         /\ \A i \in 1..Len(RawOf(lastCall').contacts) :
                ~Resolvable(RawOf(lastCall').contacts[i].input_contact))
        => \A i \in 1..Len(RawOf(lastCall').contacts) :
            LET input == RawOf(lastCall').contacts[i].input_contact
                after == ContextOf(conversationMemories', s)
            IN /\ Range(input.appointments) \subseteq Range(after.pendingAppointments)
               /\ Range(TaskInputs(input)) \subseteq Range(after.pendingTasks)
               /\ Range(input.notes) \subseteq Range(after.pendingNotes)]_vars

\* C29: in every state of every session, hasAskForMoreInfo is true exactly
\* when lastAsk is non-empty; a non-empty pending list or non-empty
\* disambiguationItems imply hasAskForMoreInfo; and a non-empty pending list
\* implies that disambiguationType is null.
C29_ContextConsistent ==
    \A s \in SessionIds :
        LET context == ContextOf(conversationMemories, s)
        IN /\ context.hasAskForMoreInfo <=> Truthy(context.lastAsk)
           /\ (AnyPending(context) \/ context.disambiguationItems # <<>>)
                => context.hasAskForMoreInfo
           /\ AnyPending(context) => context.disambiguationType = NULL

\* Items are pending by the question of the last turn, and the turn before
\* it had asked for a choice among appointments.
C29_Witness ==
    /\ Succeeded(lastCall)
    /\ AnyPending(ContextOf(conversationMemories, lastCall.sessionId))
    /\ LET messages == StateOf(conversationMemories, lastCall.sessionId).recentMessages
       IN /\ Len(messages) >= 4
          /\ AskKind(JSONParse(messages[Len(messages) - 2].content).ask_for_more_info)
                = "appointment"

\* What names an item in a text: the title of an appointment, the name of a
\* task, the text of a note
ItemLabel(item) ==
    IF "title" \in DOMAIN item THEN item.title
    ELSE IF "note" \in DOMAIN item THEN item.note
    ELSE IF "input" \in DOMAIN item THEN item.input.name
    ELSE item.name

\* C22: while a question is outstanding, the text built from the context
\* holds the question, every pending appointment, task and note, every
\* disambiguation item, and every known contact, the most recent and the
\* first one marked.
C22_PromptHoldsContext ==
    \A s \in SessionIds :
        LET context == ContextOf(conversationMemories, s)
            text == BuildStructuredContextPrompt(context)
            known == context.knownContacts
        IN context.hasAskForMoreInfo =>
            /\ Includes(text, context.lastAsk)
            /\ \A item \in Range(context.pendingAppointments) \cup Range(context.pendingTasks)
                    \cup Range(context.pendingNotes) \cup Range(context.disambiguationItems) :
                    Includes(text, ItemLabel(item))
            /\ \A i \in 1..Len(known) : Includes(text, known[i].name)
            /\ known # <<>> =>
                /\ Includes(text, GetMostRecentContact(known) \o " (MOST RECENT)")
                /\ \E i \in 1..Len(known) :
                        /\ known[i].name = GetFirstContact(known)
                        /\ Includes(text, KnownContactLine(known[i], i,
                                GetMostRecentContact(known), GetFirstContact(known)))
                        /\ Includes(KnownContactLine(known[i], i,
                                GetMostRecentContact(known), GetFirstContact(known)), " (FIRST)")

\* The two words of a candidate
FirstToken(candidate) ==
    SubSeq(candidate, 1, (CHOOSE i \in 1..Len(candidate) : CharAt(candidate, i) = " ") - 1)
SecondToken(candidate) ==
    SubSeq(candidate, (CHOOSE i \in 1..Len(candidate) : CharAt(candidate, i) = " ") + 1,
           Len(candidate))

EndsWith(s, suffix) ==
    Len(s) >= Len(suffix) /\ SubSeq(s, Len(s) - Len(suffix) + 1, Len(s)) = suffix

EndsInStreetSuffix(candidate) ==
    \E suffix \in StreetSuffixes :
        EndsWith(FirstToken(candidate), suffix) \/ EndsWith(SecondToken(candidate), suffix)

\* C26: a candidate found in the query is rejected exactly when one of its
\* two words ends in a street suffix; a candidate that is not rejected is
\* the contact of the query and takes the place of the most recent contact
\* of the history.
C26_RejectedIffStreetSuffix ==
    (lastCall.op = "currentQueryContact" /\ lastCall.candidate # NULL) =>
        /\ lastCall.currentQueryContact = NULL <=> EndsInStreetSuffix(lastCall.candidate)
        /\ ~EndsInStreetSuffix(lastCall.candidate) =>
            /\ lastCall.currentQueryContact = lastCall.candidate
            /\ lastCall.mostRecentActiveContact = lastCall.candidate


\* The last n elements of a sequence, all of it when it is shorter
LastN(seq, n) == SubSeq(seq, IF Len(seq) > n THEN Len(seq) - n + 1 ELSE 1, Len(seq))

\* The turns that passed messages to the summarizer and have returned
Summarized(started) ==
    {i \in 1..Len(started) : started[i].pc = "done" /\ started[i].toSummarize # <<>>}

\* C23: with the turns of a session processed one after the other, whenever
\* no turn is in flight recentMessages holds at most maxMessages (10)
\* messages; and the step that ends an overflowing turn has passed all but the
\* last 4 messages to the summarizer, leaves exactly the last 4 in their
\* order and sets summary to the old summary followed by the summarizer's text.
C23_WindowBounded ==
    [][ LET before == StateOf(conversationMemories, "s1")
            after == StateOf(conversationMemories', "s1")
        IN /\ InFlight(turns') = {} => Len(after.recentMessages) <= maxMessages
           /\ lastCall'.op = "summarizeReturns" =>
                LET turn == turns'[lastCall'.turn]
                    len == Len(before.recentMessages)
                IN /\ len > maxMessages
                   /\ turn.toSummarize = SubSeq(before.recentMessages, 1, len - 4)
                   /\ after.recentMessages = SubSeq(before.recentMessages, len - 3, len)
                   /\ Len(after.recentMessages) = 4
                   /\ after.summary =
                        (IF before.summary = "" THEN ""
                         ELSE "Previous summary: " \o before.summary \o "\n\n")
                        \o SummarizeConversation(turn.summarizer) ]_vars

\* Two turns have overflowed, the second onto the summary of the first
C23_Witness ==
    /\ lastCall.op = "summarizeReturns"
    /\ InFlight(turns) = {}
    /\ Cardinality(Summarized(turns)) = 2
    /\ \A i \in Summarized(turns) : ~turns[i].summarizer.failed
    /\ Len(conversationMemories["s1"].recentMessages) = 4
    /\ Len(conversationMemories["s1"].summary) > Len("Summary of the conversation so far.")

\* C30: when the summarizer fails during an overflowing turn, the turn still
\* returns the post-processed response and its two messages are recorded, the
\* messages selected for summarization are removed all the same, and the
\* summary becomes the old summary followed by the fixed placeholder.
C30_SummarizerFailureDegrades ==
    [][ (lastCall'.op = "summarizeReturns" /\ turns'[lastCall'.turn].summarizer.failed) =>
            LET turn == turns'[lastCall'.turn]
                before == StateOf(conversationMemories, "s1")
                after == StateOf(conversationMemories', "s1")
            IN /\ turn.pc = "done"
               /\ turn.result = PostProcess(turn.outcome.data)
               /\ LastN(after.recentMessages, 2) =
                    <<HumanMessage(turn.query), AIMessage(JSONStringify(turn.outcome.data))>>
               /\ after.recentMessages = LastN(before.recentMessages, 4)
               /\ \A k \in 1..Len(turn.toSummarize) :
                    turn.toSummarize[k].type = "human" =>
                        \A j \in 1..Len(after.recentMessages) :
                            after.recentMessages[j].type = "human" =>
                                after.recentMessages[j].content # turn.toSummarize[k].content
               /\ after.messageCount = before.messageCount
               /\ after.summary =
                    (IF before.summary = "" THEN ""
                     ELSE "Previous summary: " \o before.summary \o "\n\n")
                    \o "Previous conversation history (summarization failed)" ]_vars

\* The summarizer has failed in the turn that just returned
C30_Witness ==
    /\ lastCall.op = "summarizeReturns"
    /\ turns[lastCall.turn].summarizer.failed
    /\ turns[lastCall.turn].pc = "done"
    /\ Len(turns[lastCall.turn].toSummarize) = 8
    /\ Len(conversationMemories["s1"].recentMessages) = 4

\* The user's message of a turn is among the recent messages of the session
HoldsQuery(memories, sessionId, query) ==
    LET recent == StateOf(memories, sessionId).recentMessages
    IN \E k \in 1..Len(recent) : recent[k].type = "human" /\ recent[k].content = query

\* The user's message of a turn was among the messages handed to the summarizer
WasSummarized(started, query) ==
    \E j \in 1..Len(started) :
        /\ started[j].pc # "invoke"
        /\ \E k \in 1..Len(started[j].toSummarize) :
                /\ started[j].toSummarize[k].type = "human"
                /\ started[j].toSummarize[k].content = query

\* C27: with overlapping turns of one session, a message that a completed
\* save recorded and that is among the recent messages is, after any step
\* other than a reset, still among the recent messages or was handed to the
\* summarizer.
C27_SavedMessagesSurvive ==
    [][ lastCall'.op # "clearChatHistory" =>
            \A i \in 1..Len(turns) :
                ( /\ turns[i].pc = "done"
                  /\ ~turns[i].outcome.failed
                  /\ HoldsQuery(conversationMemories, "s1", turns[i].query) )
                => \/ HoldsQuery(conversationMemories', "s1", turns[i].query)
                   \/ WasSummarized(turns', turns[i].query) ]_vars

\* C28: when the stored entry of the session is gone while a turn of it is
\* suspended (a reset ran after the turn began), the stored state of the
\* session is the empty default after the turn has returned.
C28_ResetSurvivesSuspendedTurn ==
    [][ \A i \in InFlight(turns) :
            ( /\ InFlight(turns) = {i}
              /\ conversationMemories[turns[i].sessionId] = ABSENT
              /\ turns'[i].pc = "done" )
            => StateOf(conversationMemories', turns[i].sessionId)
                    = StateOf(conversationMemories, turns[i].sessionId) ]_vars

\* C21: a step of a turn or a reset of one session leaves the stored memory
\* and the token statistics of every other session as they were, whatever
\* the order in which the steps of the two sessions interleave.
C21_SessionsIsolated ==
    [][ \A other \in SessionIds :
            lastCall'.sessionId # other =>
                /\ conversationMemories'[other] = conversationMemories[other]
                /\ tokenUsageStats'[other] = tokenUsageStats[other] ]_vars

\* A session is reset while the other one has messages and statistics stored
\* and a turn in flight
C21_Witness ==
    /\ lastCall.op = "clearChatHistory"
    /\ lastCall.sessionId = "s1"
    /\ lastCall.messageCount > 0
    /\ conversationMemories["s2"] # ABSENT
    /\ tokenUsageStats["s2"] # ABSENT
    /\ Len(conversationMemories["s2"].recentMessages) > 0
    /\ \E i \in InFlight(turns) : turns[i].sessionId = "s2"

====
